---- MODULE Spec2Model ----
(***************************************************************************)
(* Teleprompter / recorder controller (the App component of the camera    *)
(* teleprompter).  The component's state hooks and refs are the           *)
(* variables; every event handler, effect and platform callback is one    *)
(* action.  A state update made by a handler is committed (rendered, and  *)
(* the effects that depend on it re-run) within the action of that        *)
(* handler.                                                               *)
(*                                                                         *)
(* Lengths are counted in twentieths of a CSS pixel, so that the scroll   *)
(* increment speed * 0.3 px and the drag walk dy * 1.5 px are integers;   *)
(* the arithmetic is exact.                                               *)
(***************************************************************************)
EXTENDS Integers, Sequences, FiniteSets

(* ------------------------------ bounds -------------------------------- *)

\* streams the platform hands out over one run
MaxStreams == 3
\* camera acquisitions (initCamera invocations) in flight at once
MaxPending == 2
\* encoders created over one run
MaxEncoders == 2
\* data events after which the encoders deliver no further timeslice data
MaxChunks == 2
\* largest pointer coordinate (px) of a mouse event
MaxPageY == 1
\* presses of the save button over one run
MaxExports == 2

(* --------------------------- program constants ------------------------ *)

UnitsPerPx == 20
\* config.speed is kept in slider steps of 0.5: speed = steps / 2
SliderMin == 2
SliderMax == 20
InitialSpeed == 4
\* scrollPosRef.current += config.speed * 0.3, per slider step, in units
StepIncrement == 3
\* walk = (y - startY) * 1.5, per px of pointer travel, in units
WalkPerPx == 30

NULL == 0

mimeTypes ==
  << "video/mp4;codecs=h264,aac", "video/mp4", "video/webm;codecs=vp9,opus",
     "video/webm;codecs=vp8,opus", "video/webm" >>

DefaultMimeType == "video/webm"

\* a type the platform may support that is not in the preference list
OtherTypes == { "video/x-matroska" }

AllTypes == { mimeTypes[i] : i \in 1..Len(mimeTypes) } \cup OtherTypes

\* the platforms of the controller runs: what MediaRecorder.isTypeSupported accepts
Platforms ==
  { {}, { "video/webm" }, { "video/mp4", "video/webm" },
    { "video/webm;codecs=vp9,opus", "video/webm;codecs=vp8,opus", "video/webm" },
    { "video/x-matroska" } }

\* scrollHeight - clientHeight of the script container, in units
Extents == { 24, 36 }

\* offsets a native (wheel, trackpad, touch) scroll can leave the container at
NativeOffsets == { 0, 30 }

\* what the platform offers handleDownload: no navigator.share / canShare, a
\* canShare that refuses files, a canShare that accepts them
ShareApis == { "none", "noFiles", "files" }

\* the slider positions the runs use: 2x (the initial speed) and 10x
SpeedChoices == { InitialSpeed, SliderMax }

VARIABLES
  \* camera
  mounted,          \* the component is mounted
  facingMode,       \* useState 'user' | 'environment'
  stream,           \* useState<MediaStream | null>
  streamRef,        \* useRef<MediaStream | null>
  srcObject,        \* videoRef.current.srcObject
  live,             \* platform: streams whose tracks have not been stopped
  acquired,         \* platform: number of streams handed out so far
  pendConstrained,  \* initCamera invocations awaiting the constrained getUserMedia
  pendBasic,        \* initCamera invocations awaiting the fallback getUserMedia
  \* scrolling
  isScrolling,      \* useState
  speed,            \* config.speed, in slider steps
  scrollPos,        \* scrollPosRef.current
  scrollTop,        \* scrollContainerRef.current.scrollTop
  maxScroll,        \* scrollHeight - clientHeight of the container
  isDragging,       \* isDragging.current
  startY,           \* startY.current
  startScrollTop,   \* startScrollTop.current
  frames,           \* platform: frame callbacks requested and not yet run
  requestRef,       \* requestRef.current
  \* recording
  isRecording,      \* useState
  videoUrl,         \* useState<string | null>: a handle of urls, or NULL
  recordedChunks,   \* recordedChunksRef.current
  mediaRecorderRef, \* mediaRecorderRef.current: an index of encoders, or NULL
  encoders,         \* platform: the MediaRecorder objects created so far
  urls,             \* platform: the blobs behind the object URLs created so far
  supported,        \* platform: the types MediaRecorder.isTypeSupported accepts
  requested,        \* the mimeType handed to the last new MediaRecorder, or "none"
  exports,          \* the invocations of handleDownload so far
  sharing,          \* platform: the Web Share API offered, one of ShareApis
  \* history
  event             \* the handler that ran last

camVars == << mounted, facingMode, stream, streamRef, srcObject, live, acquired,
              pendConstrained, pendBasic >>
scrollVars == << isScrolling, speed, scrollPos, scrollTop, maxScroll, isDragging,
                 startY, startScrollTop, frames, requestRef >>
posVars == << scrollPos, scrollTop, maxScroll, isDragging, startY, startScrollTop >>
recVars == << isRecording, videoUrl, recordedChunks, mediaRecorderRef, encoders,
              urls, supported, requested, exports, sharing >>
vars == << camVars, scrollVars, recVars, event >>

Min(a, b) == IF a < b THEN a ELSE b
Max(a, b) == IF a > b THEN a ELSE b

(* ------------------------------ camera -------------------------------- *)

\* streamRef.current.getTracks().forEach(track => track.stop())
StopTracks(l, ref) == IF ref = NULL THEN l ELSE l \ { ref }

\* initCamera up to its first await: stop and forget the held stream, clear the
\* preview, request the constrained stream
InitCameraBegin ==
  /\ live' = StopTracks(live, streamRef)
  /\ streamRef' = NULL
  /\ srcObject' = IF mounted THEN NULL ELSE srcObject
  /\ pendConstrained' = pendConstrained + 1

\* the camera button: setFacingMode flips, initCamera is re-created, and the
\* effect runs its cleanup (stop the tracks of streamRef) and then initCamera
ToggleCamera ==
  /\ mounted
  /\ pendConstrained + pendBasic < MaxPending
  /\ facingMode' = IF facingMode = "user" THEN "environment" ELSE "user"
  /\ InitCameraBegin
  /\ event' = "toggleCamera"
  /\ UNCHANGED << mounted, stream, acquired, pendBasic, scrollVars, recVars >>

\* what initCamera does with a stream it was handed (either request)
TakeStream ==
  /\ acquired < MaxStreams
  /\ acquired' = acquired + 1
  /\ live' = live \cup { acquired + 1 }
  /\ streamRef' = acquired + 1
  /\ stream' = IF mounted THEN acquired + 1 ELSE stream
  /\ srcObject' = IF mounted THEN acquired + 1 ELSE srcObject

\* the constrained getUserMedia resolves
AcquireResolve ==
  /\ pendConstrained > 0
  /\ pendConstrained' = pendConstrained - 1
  /\ TakeStream
  /\ event' = "acquired"
  /\ UNCHANGED << mounted, facingMode, pendBasic, scrollVars, recVars >>

\* the constrained getUserMedia rejects: the catch block requests the basic stream
AcquireReject ==
  /\ pendConstrained > 0
  /\ pendConstrained' = pendConstrained - 1
  /\ pendBasic' = pendBasic + 1
  /\ event' = "acquireFailed"
  /\ UNCHANGED << mounted, facingMode, stream, streamRef, srcObject, live, acquired,
                  scrollVars, recVars >>

\* the fallback getUserMedia resolves
BasicResolve ==
  /\ pendBasic > 0
  /\ pendBasic' = pendBasic - 1
  /\ TakeStream
  /\ event' = "basicAcquired"
  /\ UNCHANGED << mounted, facingMode, pendConstrained, scrollVars, recVars >>

\* the fallback getUserMedia rejects too: logged, nothing else
BasicReject ==
  /\ pendBasic > 0
  /\ pendBasic' = pendBasic - 1
  /\ event' = "basicFailed"
  /\ UNCHANGED << mounted, facingMode, stream, streamRef, srcObject, live, acquired,
                  pendConstrained, scrollVars, recVars >>

(* ----------------------------- scrolling ------------------------------ *)

\* an assignment to scrollContainerRef.current.scrollTop: the container keeps
\* the offset within its scroll range
SetScrollTop(v, extent) == Max(0, Min(v, extent))

\* requestAnimationFrame returns an id no pending or remembered request has
FreshId(fr, ref) ==
  CHOOSE i \in 1..(Cardinality(fr) + 2) :
    /\ i # ref
    /\ \A c \in fr : c.id # i
    /\ \A j \in 1..(i - 1) : j = ref \/ \E c \in fr : c.id = j

\* requestAnimationFrame(animate), animate being the callback of the render in
\* which isScrolling = sc and config.speed = sp
RequestFrame(fr, ref, sc, sp) ==
  LET id == FreshId(fr, ref)
  IN  [ frames |-> fr \cup { [ id |-> id, scrolling |-> sc, speed |-> sp ] },
        requestRef |-> id ]

\* an effect cleanup that cancels nothing
CancelFrame_None(fr, ref) == fr

\* cancelAnimationFrame(requestRef.current), guarded by requestRef.current
CancelFrame(fr, ref) == IF ref = NULL THEN fr ELSE { c \in fr : c.id # ref }

\* useEffect(..., [animate]): when animate is re-created its cleanup cancels
\* the remembered request and the effect requests a frame for the new animate
AnimateEffect(fr, ref, sc, sp) == RequestFrame(CancelFrame(fr, ref), ref, sc, sp)

\* the render that follows a handler: animate depends on [isScrolling, config.speed]
Commit(fr, ref) ==
  LET changed == mounted /\ (isScrolling' # isScrolling \/ speed' # speed)
      next == AnimateEffect(fr, ref, isScrolling', speed')
  IN  /\ frames' = IF changed THEN next.frames ELSE fr
      /\ requestRef' = IF changed THEN next.requestRef ELSE ref

\* the first branch of animate taken without looking at isDragging.current
AutoBranch_IgnoresDrag(c) == c.scrolling /\ mounted

\* the branch of animate that advances the script
AutoBranch(c) == c.scrolling /\ mounted /\ ~isDragging

\* the increment without the 0.3 base speed: config.speed px per frame
Increment_NoBaseRate(sp) == sp * (UnitsPerPx \div 2)

\* the increment cut down to whole pixels
Increment_WholePx(sp) == ((sp * StepIncrement) \div UnitsPerPx) * UnitsPerPx

\* config.speed * 0.3, for a speed of sp slider steps
Increment(sp) == sp * StepIncrement

\* animate without the clamp of scrollPosRef.current
ClampAtEnd_None(pos, extent) == pos

\* if (scrollPosRef.current >= maxScroll) scrollPosRef.current = maxScroll
ClampAtEnd(pos, extent) == IF pos >= extent THEN extent ELSE pos

\* animate: one frame callback c runs
Animate(c) ==
  LET pos1 == scrollPos + Increment(c.speed)
      atEnd == pos1 >= maxScroll
      pos2 == ClampAtEnd(pos1, maxScroll)
      armed == RequestFrame(frames \ { c }, requestRef, c.scrolling, c.speed)
  IN  /\ scrollPos' = IF AutoBranch(c) THEN pos2
                      ELSE IF mounted THEN scrollTop ELSE scrollPos
      /\ scrollTop' = IF AutoBranch(c) THEN SetScrollTop(pos2, maxScroll) ELSE scrollTop
      /\ isScrolling' = IF AutoBranch(c) /\ atEnd THEN FALSE ELSE isScrolling
      /\ speed' = speed
      /\ Commit(armed.frames, armed.requestRef)

Tick ==
  /\ \E c \in frames : Animate(c)
  /\ event' = "tick"
  /\ UNCHANGED << camVars, recVars, maxScroll, isDragging, startY, startScrollTop >>

\* setIsScrolling(b) by a handler that touches nothing else of the scroll state
SetIsScrolling(b) ==
  /\ isScrolling' = (IF mounted THEN b ELSE isScrolling)
  /\ speed' = speed
  /\ Commit(frames, requestRef)

\* handleMouseDown without its setIsScrolling(false)
handleMouseDown_NoPause ==
  /\ mounted
  /\ \E y \in 0..MaxPageY : startY' = y
  /\ isDragging' = TRUE
  /\ startScrollTop' = scrollTop
  /\ event' = "mouseDown"
  /\ UNCHANGED << camVars, recVars, isScrolling, speed, frames, requestRef,
                  scrollPos, scrollTop, maxScroll >>

handleMouseDown ==
  /\ mounted
  /\ \E y \in 0..MaxPageY : startY' = y
  /\ isDragging' = TRUE
  /\ startScrollTop' = scrollTop
  /\ SetIsScrolling(FALSE)
  /\ event' = "mouseDown"
  /\ UNCHANGED << camVars, recVars, scrollPos, scrollTop, maxScroll >>

handleMouseMove ==
  /\ mounted
  /\ isDragging
  /\ \E y \in 0..MaxPageY :
       scrollTop' = SetScrollTop(startScrollTop - (y - startY) * WalkPerPx, maxScroll)
  /\ event' = "mouseMove"
  /\ UNCHANGED << camVars, recVars, isScrolling, speed, scrollPos, maxScroll,
                  isDragging, startY, startScrollTop, frames, requestRef >>

\* onMouseUp and onMouseLeave
handleMouseUp ==
  /\ mounted
  /\ isDragging' = FALSE
  /\ event' = "mouseUp"
  /\ UNCHANGED << camVars, recVars, isScrolling, speed, scrollPos, scrollTop,
                  maxScroll, startY, startScrollTop, frames, requestRef >>

handleTouchStart ==
  /\ mounted
  /\ SetIsScrolling(FALSE)
  /\ event' = "touchStart"
  /\ UNCHANGED << camVars, recVars, posVars >>

\* the play / stop button: setIsScrolling(!isScrolling)
ToggleScroll ==
  /\ mounted
  /\ SetIsScrolling(~isScrolling)
  /\ event' = "toggleScroll"
  /\ UNCHANGED << camVars, recVars, posVars >>

\* the reset button
ResetScroll ==
  /\ mounted
  /\ scrollPos' = 0
  /\ scrollTop' = SetScrollTop(0, maxScroll)
  /\ event' = "reset"
  /\ UNCHANGED << camVars, recVars, isScrolling, speed, maxScroll, isDragging,
                  startY, startScrollTop, frames, requestRef >>

\* the speed slider
SetSpeed ==
  /\ mounted
  /\ \E h \in SpeedChoices \ { speed } : speed' = h
  /\ isScrolling' = isScrolling
  /\ Commit(frames, requestRef)
  /\ event' = "setSpeed"
  /\ UNCHANGED << camVars, recVars, posVars >>

\* the script editor (likewise the font size slider, or a resize of the window)
\* changes scrollHeight - clientHeight: the container keeps its offset within the
\* new scroll range
EditScript ==
  /\ mounted
  /\ \E m \in Extents \ { maxScroll } :
       /\ maxScroll' = m
       /\ scrollTop' = SetScrollTop(scrollTop, m)
  /\ event' = "editScript"
  /\ UNCHANGED << camVars, recVars, isScrolling, speed, scrollPos, isDragging,
                  startY, startScrollTop, frames, requestRef >>

\* the container scrolls natively (overflow-y-auto): wheel, trackpad, touch
NativeScroll ==
  /\ mounted
  /\ \E v \in NativeOffsets : v # scrollTop /\ scrollTop' = SetScrollTop(v, maxScroll)
  /\ event' = "nativeScroll"
  /\ UNCHANGED << camVars, recVars, isScrolling, speed, scrollPos, maxScroll,
                  isDragging, startY, startScrollTop, frames, requestRef >>

(* ----------------------------- recording ------------------------------ *)

\* mimeTypes.find(type => MediaRecorder.isTypeSupported(type)): the index found,
\* 0 when find returns undefined
RECURSIVE FindFrom(_, _)
FindFrom(sup, i) ==
  IF i > Len(mimeTypes) THEN 0
  ELSE IF mimeTypes[i] \in sup THEN i
  ELSE FindFrom(sup, i + 1)

\* findLast in place of find: the scan from the end of the list
RECURSIVE FindBack(_, _)
FindBack(sup, i) ==
  IF i < 1 THEN 0
  ELSE IF mimeTypes[i] \in sup THEN i
  ELSE FindBack(sup, i - 1)

FindSupported_Last(sup) == FindBack(sup, Len(mimeTypes))

FindSupported(sup) == FindFrom(sup, 1)

\* const mimeType = mimeTypes.find(...) || 'video/webm'
SelectMimeType(sup) ==
  IF FindSupported(sup) = 0 THEN DefaultMimeType ELSE mimeTypes[FindSupported(sup)]

\* new MediaRecorder(stream, { mimeType }) throws NotSupportedError for a type the
\* platform does not support
ConstructorThrows(type) == type \notin supported

\* new MediaRecorder(stream, { mimeType }) followed by recorder.start(1000)
NewEncoder(type) ==
  [ state |-> "recording", stream |-> stream, mimeType |-> type, delivered |-> 0,
    out |-> << >> ]

\* startRecording past its guard
StartSession ==
  /\ recordedChunks' = << >>
  /\ videoUrl' = NULL
  /\ requested' = SelectMimeType(supported)
  /\ IF ConstructorThrows(SelectMimeType(supported))
     THEN UNCHANGED << isRecording, mediaRecorderRef, encoders, isScrolling,
                       speed, frames, requestRef >>
     ELSE /\ Len(encoders) < MaxEncoders
          /\ encoders' = Append(encoders, NewEncoder(SelectMimeType(supported)))
          /\ mediaRecorderRef' = Len(encoders) + 1
          /\ isRecording' = TRUE
          /\ SetIsScrolling(TRUE)

\* what a handler that returns at its guard leaves alone
SessionUnchanged ==
  UNCHANGED << isRecording, videoUrl, recordedChunks, mediaRecorderRef, encoders,
               requested, isScrolling, speed, frames, requestRef >>

\* startRecording without its if (!stream) return
startRecording_NoStreamCheck == StartSession

startRecording == IF stream = NULL THEN SessionUnchanged ELSE StartSession

\* MediaRecorder.stop(): the recorder is inactive at once; its last data and its
\* stop event are delivered by a task queued for later
RecorderStop(encs, e) ==
  IF encs[e].state = "recording" THEN [ encs EXCEPT ![e].state = "stopping" ] ELSE encs

\* stopRecording past its guard, without its setIsScrolling(false)
StopSession_KeepsScrolling ==
  /\ encoders' = RecorderStop(encoders, mediaRecorderRef)
  /\ isRecording' = FALSE
  /\ UNCHANGED << videoUrl, recordedChunks, mediaRecorderRef, requested, isScrolling,
                  speed, frames, requestRef >>

\* stopRecording past its guard
StopSession ==
  /\ encoders' = RecorderStop(encoders, mediaRecorderRef)
  /\ isRecording' = FALSE
  /\ SetIsScrolling(FALSE)
  /\ UNCHANGED << videoUrl, recordedChunks, mediaRecorderRef, requested >>

\* stopRecording guarded by the recorder alone, without isRecording
stopRecording_NoStateCheck ==
  IF mediaRecorderRef # NULL THEN StopSession ELSE SessionUnchanged

stopRecording ==
  IF mediaRecorderRef # NULL /\ isRecording THEN StopSession ELSE SessionUnchanged

\* the record button bound to startRecording whatever the state
RecordHandler_NoStateCheck == startRecording

\* onClick={isRecording ? stopRecording : startRecording}
RecordHandler == IF isRecording THEN stopRecording ELSE startRecording

RecordClick ==
  /\ mounted
  /\ RecordHandler
  /\ event' = "record"
  /\ UNCHANGED << camVars, posVars, urls, supported, exports, sharing >>

\* stopRecording run in whatever state the controller is in
StopCall ==
  /\ mounted
  /\ stopRecording
  /\ event' = "stop"
  /\ UNCHANGED << camVars, posVars, urls, supported, exports, sharing >>

\* recorder.ondataavailable of encoder e, handed a chunk of the given size
OnDataAvailable(chunks, e, size) ==
  IF size > 0
  THEN Append(chunks, [ enc |-> e, n |-> encoders[e].delivered + 1 ])
  ELSE chunks

\* encoder enc, the e-th created, fires a dataavailable event with data of the
\* given size: out keeps the data that was not empty
Emit(enc, e, size) ==
  [ enc EXCEPT !.delivered = @ + 1,
               !.out = IF size > 0
                       THEN Append(@, [ enc |-> e, n |-> enc.delivered + 1 ])
                       ELSE @ ]

\* the data events delivered by the first n encoders
RECURSIVE Delivered(_, _)
Delivered(encs, n) == IF n = 0 THEN 0 ELSE encs[n].delivered + Delivered(encs, n - 1)

\* the timeslice of a recording encoder elapses: a dataavailable event
EncoderData ==
  /\ \E e \in 1..Len(encoders), size \in 0..1 :
       /\ encoders[e].state = "recording"
       /\ Delivered(encoders, Len(encoders)) < MaxChunks
       /\ recordedChunks' = OnDataAvailable(recordedChunks, e, size)
       /\ encoders' = [ encoders EXCEPT ![e] = Emit(@, e, size) ]
  /\ event' = "data"
  /\ UNCHANGED << camVars, scrollVars, isRecording, videoUrl, mediaRecorderRef, urls,
                  supported, requested, exports, sharing >>

\* recorder.onstop that makes a result only when chunks were buffered
OnStop_OnlyIfChunks(chunks) ==
  IF chunks = << >>
  THEN UNCHANGED << urls, videoUrl >>
  ELSE /\ urls' = Append(urls, chunks)
       /\ videoUrl' = IF mounted THEN Len(urls) + 1 ELSE videoUrl

\* recorder.onstop: new Blob(recordedChunksRef.current), URL.createObjectURL, setVideoUrl
OnStop(chunks) ==
  /\ urls' = Append(urls, chunks)
  /\ videoUrl' = IF mounted THEN Len(urls) + 1 ELSE videoUrl

\* the task that the stop() of encoder e queued runs: the last dataavailable
\* event, then the stop event
EncoderStopOf(e) ==
  /\ e \in 1..Len(encoders)
  /\ encoders[e].state = "stopping"
  /\ \E size \in 0..1 :
       /\ recordedChunks' = OnDataAvailable(recordedChunks, e, size)
       /\ encoders' = [ encoders EXCEPT
                          ![e] = [ Emit(@, e, size) EXCEPT !.state = "inactive" ] ]
  /\ OnStop(recordedChunks')
  /\ event' = "stopped"
  /\ UNCHANGED << camVars, scrollVars, isRecording, mediaRecorderRef, supported,
                  requested, exports, sharing >>

EncoderStop == \E e \in 1..MaxEncoders : EncoderStopOf(e)

\* the tracks of the stream a recording encoder was created on have been
\* stopped: the platform stops the recorder, its last data and its stop event
\* are queued as after stop()
EncoderTracksEnded ==
  /\ \E e \in 1..Len(encoders) :
       /\ encoders[e].state = "recording"
       /\ encoders[e].stream \notin live
       /\ encoders' = RecorderStop(encoders, e)
  /\ event' = "tracksEnded"
  /\ UNCHANGED << camVars, scrollVars, isRecording, videoUrl, recordedChunks,
                  mediaRecorderRef, urls, supported, requested, exports, sharing >>

\* the result overlay is rendered when videoUrl && !isRecording; its discard button
Discard ==
  /\ mounted
  /\ videoUrl # NULL /\ ~isRecording
  /\ videoUrl' = NULL
  /\ event' = "discard"
  /\ UNCHANGED << camVars, scrollVars, isRecording, recordedChunks, mediaRecorderRef,
                  encoders, urls, supported, requested, exports, sharing >>

(* ------------------------------- export ------------------------------- *)

\* an invocation of handleDownload past its guard, with the videoUrl of its render
NewExport(url) == [ url |-> url, stage |-> "fetching", shared |-> FALSE, saves |-> 0 ]

\* the fallback: a temporary anchor with href = videoUrl is clicked, once
FileSave(x) == [ x EXCEPT !.stage = "done", !.saves = @ + 1 ]

\* navigator.share resolved and the handler goes on into the fallback
ShareDone_NoReturn(x) == FileSave([ x EXCEPT !.shared = TRUE ])

\* navigator.share resolved: return
ShareDone(x) == [ x EXCEPT !.stage = "done", !.shared = TRUE ]

\* handleDownload up to its first await: without navigator.share and
\* navigator.canShare the fallback at once, else fetch(videoUrl)
BeginExport(url) ==
  IF sharing = "none" THEN FileSave(NewExport(url)) ELSE NewExport(url)

handleDownload ==
  IF videoUrl = NULL
  THEN UNCHANGED exports
  ELSE exports' = Append(exports, BeginExport(videoUrl))

\* what the steps of an export leave alone
ExportFrame ==
  UNCHANGED << camVars, scrollVars, isRecording, videoUrl, recordedChunks,
               mediaRecorderRef, encoders, urls, supported, requested, sharing >>

\* the save button of the result overlay (rendered when videoUrl && !isRecording)
DownloadClick ==
  /\ mounted
  /\ videoUrl # NULL /\ ~isRecording
  /\ Len(exports) < MaxExports
  /\ handleDownload
  /\ event' = "download"
  /\ ExportFrame

\* fetch and response.blob() resolved: the file is made; navigator.share is
\* called if canShare accepts the file, else the fallback
FetchResolve ==
  /\ \E i \in 1..Len(exports) :
       /\ exports[i].stage = "fetching"
       /\ exports' = [ exports EXCEPT ![i] =
                         IF sharing = "files"
                         THEN [ @ EXCEPT !.stage = "sharing" ]
                         ELSE FileSave(@) ]
  /\ event' = "fetched"
  /\ ExportFrame

\* fetch or response.blob() rejected: the catch block, then the fallback
FetchReject ==
  /\ \E i \in 1..Len(exports) :
       /\ exports[i].stage = "fetching"
       /\ exports' = [ exports EXCEPT ![i] = FileSave(@) ]
  /\ event' = "fetchFailed"
  /\ ExportFrame

\* navigator.share resolved
ShareResolve ==
  /\ \E i \in 1..Len(exports) :
       /\ exports[i].stage = "sharing"
       /\ exports' = [ exports EXCEPT ![i] = ShareDone(@) ]
  /\ event' = "shared"
  /\ ExportFrame

\* navigator.share rejected (the sheet was dismissed, or an error): the catch
\* block, then the fallback
ShareReject ==
  /\ \E i \in 1..Len(exports) :
       /\ exports[i].stage = "sharing"
       /\ exports' = [ exports EXCEPT ![i] = FileSave(@) ]
  /\ event' = "shareFailed"
  /\ ExportFrame

(* ------------------------------ lifecycle ----------------------------- *)

\* the component is torn down: the cleanups of both effects run
Unmount ==
  /\ mounted
  /\ mounted' = FALSE
  /\ live' = StopTracks(live, streamRef)
  /\ frames' = CancelFrame(frames, requestRef)
  /\ event' = "unmount"
  /\ UNCHANGED << facingMode, stream, streamRef, srcObject, acquired, pendConstrained,
                  pendBasic, isScrolling, speed, posVars, requestRef, recVars >>

\* after the first render and its effects: initCamera is awaiting the constrained
\* stream and the first frame is requested
CameraInit ==
  /\ mounted = TRUE
  /\ facingMode = "user"
  /\ stream = NULL
  /\ streamRef = NULL
  /\ srcObject = NULL
  /\ live = {}
  /\ acquired = 0
  /\ pendConstrained = 1
  /\ pendBasic = 0

RecorderInit(platforms) ==
  /\ isRecording = FALSE
  /\ videoUrl = NULL
  /\ recordedChunks = << >>
  /\ mediaRecorderRef = NULL
  /\ encoders = << >>
  /\ urls = << >>
  /\ supported \in platforms
  /\ requested = "none"

ExportInit(apis) ==
  /\ exports = << >>
  /\ sharing \in apis

ScrollInit(extents) ==
  /\ isScrolling = FALSE
  /\ speed = InitialSpeed
  /\ scrollPos = 0
  /\ scrollTop = 0
  /\ maxScroll \in extents
  /\ isDragging = FALSE
  /\ startY = 0
  /\ startScrollTop = 0
  /\ frames = RequestFrame({}, NULL, FALSE, InitialSpeed).frames
  /\ requestRef = RequestFrame({}, NULL, FALSE, InitialSpeed).requestRef

InitWith(extents, platforms, apis) ==
  /\ CameraInit
  /\ ScrollInit(extents)
  /\ RecorderInit(platforms)
  /\ ExportInit(apis)
  /\ event = "mount"

Init == InitWith(Extents, Platforms, ShareApis)

Next ==
  \/ ToggleCamera \/ AcquireResolve \/ AcquireReject \/ BasicResolve \/ BasicReject
  \/ Tick \/ handleMouseDown \/ handleMouseMove \/ handleMouseUp \/ handleTouchStart
  \/ ToggleScroll \/ ResetScroll \/ SetSpeed \/ EditScript \/ NativeScroll
  \/ RecordClick \/ EncoderData \/ EncoderStop \/ EncoderTracksEnded \/ Discard
  \/ DownloadClick \/ FetchResolve \/ FetchReject \/ ShareResolve \/ ShareReject
  \/ Unmount

Spec == Init /\ [][Next]_vars

\* the camera: acquisition, fallback, facing toggles, teardown
NextCamera ==
  \/ ToggleCamera \/ AcquireResolve \/ AcquireReject \/ BasicResolve \/ BasicReject
  \/ Unmount

\* one platform and one layout, where the runs do not depend on them
OnePlatform == { { "video/webm" } }
OneLayout == { 36 }
OneShareApi == { "files" }

InitCamera == InitWith(OneLayout, OnePlatform, OneShareApi)

SpecCamera == InitCamera /\ [][NextCamera]_vars

\* the scroll loop and the handlers that touch it
NextScroll ==
  \/ AcquireResolve
  \/ Tick \/ handleMouseDown \/ handleMouseMove \/ handleMouseUp \/ handleTouchStart
  \/ ToggleScroll \/ ResetScroll \/ SetSpeed \/ EditScript \/ NativeScroll
  \/ RecordClick

InitScroll == InitWith(Extents, OnePlatform, OneShareApi)

SpecScroll == InitScroll /\ [][NextScroll]_vars

\* the recording controller
NextRecord ==
  \/ AcquireResolve \/ AcquireReject \/ BasicResolve \/ BasicReject
  \/ ToggleScroll
  \/ RecordClick \/ EncoderData \/ EncoderStop \/ Discard

InitRecord == InitWith(OneLayout, Platforms, OneShareApi)

SpecRecord == InitRecord /\ [][NextRecord]_vars

\* animate applied to the states around the end of a script of 1000 px: every
\* slider speed, auto-scroll on or off, a drag active or not, the position and
\* the rendered offset in step
TickExtent == 1000 * UnitsPerPx
TickOffsets == { (995 + k) * UnitsPerPx : k \in 0..5 }

InitTick ==
  /\ CameraInit
  /\ RecorderInit(OnePlatform)
  /\ ExportInit(OneShareApi)
  /\ maxScroll = TickExtent
  /\ scrollTop \in TickOffsets
  /\ scrollPos = scrollTop
  /\ speed \in SliderMin..SliderMax
  /\ isScrolling \in BOOLEAN
  /\ isDragging \in BOOLEAN
  /\ startY = 0
  /\ startScrollTop = (IF isDragging THEN scrollTop ELSE 0)
  /\ frames = RequestFrame({}, NULL, isScrolling, speed).frames
  /\ requestRef = RequestFrame({}, NULL, isScrolling, speed).requestRef
  /\ event = "setSpeed"

NextTick == Tick

SpecTick == InitTick /\ [][NextTick]_vars

\* the choice of the codec, on every platform: every set of supported types
InitCodec ==
  /\ CameraInit
  /\ ScrollInit(OneLayout)
  /\ RecorderInit(SUBSET AllTypes)
  /\ ExportInit(OneShareApi)
  /\ event = "mount"

NextCodec == AcquireResolve \/ RecordClick

SpecCodec == InitCodec /\ [][NextCodec]_vars

\* the platform runs every task it has queued: a stopped encoder delivers its
\* last data and its stop event
FairRecord == SpecRecord /\ \A e \in 1..MaxEncoders : WF_vars(EncoderStopOf(e))

\* the recording controller, with stopRecording also run outside a recording
NextStop == NextRecord \/ StopCall

SpecStop == InitRecord /\ [][NextStop]_vars

\* the export of a result, on every kind of platform, with the sessions that
\* make the results and the discard
NextExport ==
  \/ AcquireResolve
  \/ RecordClick \/ EncoderStop \/ Discard
  \/ DownloadClick \/ FetchResolve \/ FetchReject \/ ShareResolve \/ ShareReject

InitExport == InitWith(OneLayout, OnePlatform, ShareApis)

SpecExport == InitExport /\ [][NextExport]_vars

\* auto-scroll left to itself: the user acts only while the auto-scroll flag is
\* off; while it is on only the frame callbacks and the platform's events run
NextAuto ==
  \/ AcquireResolve \/ Tick \/ EncoderData \/ EncoderStop
  \/ ~isScrolling /\ RecordClick
  \/ ~isScrolling /\ ToggleScroll
  \/ ~isScrolling /\ SetSpeed
  \/ ~isScrolling /\ ResetScroll

SpecAuto == InitScroll /\ [][NextAuto]_vars

\* the platform runs the frame callback that was requested
FairAuto == SpecAuto /\ WF_vars(Tick)

\* a recording together with the scroll controls, on the shorter script: the
\* sessions and their encoders' data, the frame callbacks, the drag, the
\* play / stop and reset buttons
NextCouple ==
  \/ AcquireResolve
  \/ Tick \/ handleMouseDown \/ handleMouseMove \/ handleMouseUp \/ handleTouchStart
  \/ ToggleScroll \/ ResetScroll
  \/ RecordClick \/ EncoderData

ShortLayout == { 24 }

InitCouple == InitWith(ShortLayout, OnePlatform, OneShareApi)

SpecCouple == InitCouple /\ [][NextCouple]_vars

\* the frame loop over the life of the component: ticks, the handlers that
\* re-create animate (the auto-scroll flag or the speed changes), teardown
NextFrames ==
  \/ AcquireResolve
  \/ Tick \/ handleMouseDown \/ handleMouseUp
  \/ ToggleScroll \/ SetSpeed \/ RecordClick
  \/ Unmount

SpecFrames == InitCouple /\ [][NextFrames]_vars

\* the recording controller together with the camera-facing button
NextLive ==
  \/ ToggleCamera \/ AcquireResolve \/ AcquireReject \/ BasicResolve \/ BasicReject
  \/ RecordClick \/ EncoderStop \/ EncoderTracksEnded

SpecLive == InitCamera /\ [][NextLive]_vars

(* ------------------------------- claims ------------------------------- *)

\* C1 as stated: in every state in which a drag is active the auto-scroll flag is
\* false, whatever other events are interleaved with the drag.
C1_NoAutoScrollWhileDragging == isDragging => ~isScrolling

\* C1, amended: pointer-down starts the drag with the auto-scroll flag false, and
\* the only steps that ever turn the flag on are the play / stop toggle and the
\* start of a recording; pointer-move, pointer-up / leave, touch-start and ticks
\* never do.  So the flag is false throughout a drag and after its end until it
\* is explicitly re-enabled.
C1_DragPausesUntilReenabled ==
  [][ /\ event' = "mouseDown" => (isDragging' /\ ~isScrolling')
      /\ (~isScrolling /\ isScrolling') => event' \in { "toggleScroll", "record" }
    ]_vars

\* a drag that began while auto-scrolling and has moved the script, still paused
C1_Witness ==
  /\ isDragging /\ ~isScrolling
  /\ event = "mouseMove"
  /\ scrollTop # startScrollTop
  /\ isRecording

\* C2: toggling camera facing releases the held stream before the new acquisition
\* begins, and at no time are two acquired camera streams live simultaneously.
C2_AtMostOneLiveStream ==
  /\ Cardinality(live) <= 1
  /\ event = "toggleCamera" => live = {}

\* C3: once every pending acquisition has resolved, every stream ever acquired
\* other than the one held by a mounted controller has been released.
C3_NoStreamLeaked ==
  (pendConstrained = 0 /\ pendBasic = 0) =>
    live \subseteq (IF mounted THEN { streamRef } \ { NULL } ELSE {})

\* the encoders that are capturing
ActiveEncoders == { e \in 1..Len(encoders) : encoders[e].state = "recording" }

C5_StopWhenNotRecordingIsNoOp ==
  [][ (~isRecording /\ event' = "stop") =>
        UNCHANGED << encoders, isRecording, isScrolling, recordedChunks, videoUrl,
                     mediaRecorderRef, urls, frames, requestRef >>
    ]_vars

\* stop() ran after the session had ended, with auto-scroll switched on again and
\* a result present: nothing moved
C5_Witness ==
  /\ event = "stop"
  /\ ~isRecording /\ isScrolling
  /\ mediaRecorderRef # NULL /\ encoders[mediaRecorderRef].state = "inactive"
  /\ videoUrl # NULL

\* C6: start() with no camera stream creates no encoder and leaves the recording
\* flag, the auto-scroll flag, the buffered chunks and the result handle unchanged.
C6_StartWithoutStreamIsNoOp ==
  [][ (~isRecording /\ stream = NULL /\ event' = "record") =>
        UNCHANGED << encoders, isRecording, isScrolling, recordedChunks, videoUrl,
                     mediaRecorderRef, urls, frames, requestRef >>
    ]_vars

\* the record control was pressed before any stream arrived, auto-scroll being on
C6_Witness ==
  /\ event = "record"
  /\ stream = NULL
  /\ isScrolling /\ ~isRecording
  /\ encoders = << >>

\* C7 as stated: the scroll position is within [0, maxScrollExtent] in every
\* reachable state, script edits that change maxScrollExtent included.
C7_PositionInRange == 0 <= scrollPos /\ scrollPos <= maxScroll

\* C7, amended: the rendered scroll offset is within [0, maxScrollExtent] in every
\* reachable state; the tracked position is never negative and is within
\* [0, maxScrollExtent] after every tick; it exceeds the current maxScrollExtent
\* only from a change of the content or viewport size (a script edit) that
\* shrinks the extent, until the next tick.
C7_ClampedAtEveryTick ==
  /\ [](/\ 0 <= scrollTop /\ scrollTop <= maxScroll
        /\ 0 <= scrollPos
        /\ event = "tick" => scrollPos <= maxScroll)
  /\ [][ scrollPos' > maxScroll' =>
           \/ event' = "editScript"
           \/ scrollPos > maxScroll /\ event' # "tick"
       ]_vars

\* a tick of a recording's auto-scroll has clamped the position at the end of a
\* script whose extent is the smaller one
C7_Witness ==
  /\ event = "tick"
  /\ scrollPos = maxScroll /\ scrollTop = maxScroll
  /\ \E m \in Extents : m > maxScroll
  /\ isRecording /\ ~isScrolling

\* the scenario of C8: extent 1000 px, speed 10, auto-scroll on, no drag, at px
C8_At(px) ==
  /\ maxScroll = 1000 * UnitsPerPx
  /\ scrollPos = px * UnitsPerPx /\ scrollTop = px * UnitsPerPx
  /\ speed = SliderMax
  /\ isScrolling /\ ~isDragging

\* C8 as stated: from position 995 one tick leaves the position clamped to 1000
\* and auto-scroll off.
C8_OneTickClamps ==
  [][ (C8_At(995) /\ event' = "tick") =>
        (scrollPos' = 1000 * UnitsPerPx /\ ~isScrolling') ]_vars

\* C8, amended: from position 995 one tick advances the position by 10 * 0.3 = 3
\* to 998 and leaves auto-scroll on; the second tick clamps the position to 1000
\* and turns auto-scroll off.
C8_TwoTicksClamp ==
  /\ [][ (C8_At(995) /\ event' = "tick") =>
           /\ scrollPos' = 998 * UnitsPerPx /\ scrollTop' = 998 * UnitsPerPx
           /\ isScrolling' ]_vars
  /\ [][ (C8_At(998) /\ event' = "tick") =>
           /\ scrollPos' = 1000 * UnitsPerPx /\ scrollTop' = 1000 * UnitsPerPx
           /\ ~isScrolling' ]_vars

\* the scenario after its first tick
C8_Witness == C8_At(998) /\ event = "tick"

\* C9 as stated: stop() leaves the controller in Reviewing, the result handle
\* present and the recording flag off.
C9_StopEntersReviewing ==
  [][ (isRecording /\ event' = "record") => (~isRecording' /\ videoUrl' # NULL) ]_vars

\* the encoders whose stop() has not yet delivered its stop event
Stopping == { e \in 1..Len(encoders) : encoders[e].state = "stopping" }

\* C9, amended: stop() clears the recording flag, does not itself set the result
\* handle (after start() and an immediate stop() it is still absent: a state
\* indistinguishable from Idle) and leaves the encoder with its stop event
\* queued; the stop callback then sets the result
\* handle to a new object made of the chunks buffered at that time, also when
\* there are none; and while the component stays mounted every stop() is
\* followed by its stop callback, so the result handle is eventually set.
C9_StopThenCallbackSetsResult ==
  /\ [][ (isRecording /\ event' = "record") =>
           /\ ~isRecording'
           /\ videoUrl' = videoUrl
           /\ urls' = urls
           /\ mediaRecorderRef \in Stopping'
       ]_vars
  /\ [][ event' = "stopped" =>
           /\ videoUrl' = Len(urls') /\ Len(urls') = Len(urls) + 1
           /\ urls'[videoUrl'] = recordedChunks'
       ]_vars
  /\ \A e \in 1..MaxEncoders :
       (e \in Stopping) ~> (e \in 1..Len(encoders) /\ encoders[e].state = "inactive")
  /\ (Stopping # {}) ~> (videoUrl # NULL)

\* start() then stop() with nothing buffered, and the stop callback has run:
\* Reviewing, with a result made of no chunks
C9_Witness ==
  /\ event = "stopped"
  /\ ~isRecording
  /\ Len(encoders) = 1 /\ encoders[1].delivered = 1
  /\ videoUrl # NULL /\ urls[videoUrl] = << >>

\* C10: whatever set of types the platform supports, the encoder start() creates
\* is asked for the earliest entry of the preference list that is supported.
C10_SelectsEarliestSupported ==
  \A e \in 1..Len(encoders) :
    \A i \in 1..Len(mimeTypes) :
      (mimeTypes[i] \in supported /\ \A j \in 1..(i - 1) : mimeTypes[j] \notin supported)
        => encoders[e].mimeType = mimeTypes[i]

\* a platform that supports the third and the last entry of the list and a type
\* outside it: the session records with the third
C10_Witness ==
  /\ supported = { mimeTypes[3], mimeTypes[5] } \cup OtherTypes
  /\ isRecording
  /\ encoders[mediaRecorderRef].mimeType = mimeTypes[3]

\* C11: the codec that start() requests from the encoder is always one the
\* platform reports as supported, the default chosen when no preferred codec is
\* supported included.
C11_RequestedCodecSupported == requested # "none" => requested \in supported

\* the object URLs created and not revoked: the component has no call of
\* URL.revokeObjectURL, so every URL made by a stop callback stays allocated
Unreleased == 1..Len(urls)

\* C12: every result handle created at stop is released when the result is
\* discarded or a new session starts: the unreleased handles are never more
\* than one, and none is left once the controller holds no result.
C12_HandlesReleased ==
  /\ Cardinality(Unreleased) <= 1
  /\ videoUrl = NULL => Unreleased = {}

\* C13: the controller only moves Idle -> Recording -> Reviewing -> Idle: the
\* result handle is never set while a session is Recording, and no session is
\* Recording while a previous session's stop has not yet produced its result.
C13_NoResultNorPendingStopWhileRecording ==
  isRecording => (videoUrl = NULL /\ Stopping = {})

\* C14: each acquisition attempt makes at most two platform requests: a retry
\* with the minimal constraints is requested only by the failure of a constrained
\* request, and exactly one; when the retry fails too no further request is
\* made, and no stream is held.
C14_OneRetryThenNothingHeld ==
  /\ [][ pendBasic' > pendBasic =>
           /\ event' = "acquireFailed"
           /\ pendBasic' = pendBasic + 1
           /\ pendConstrained' = pendConstrained - 1
       ]_vars
  /\ [][ event' = "basicFailed" =>
           /\ pendBasic' = pendBasic - 1
           /\ pendConstrained' = pendConstrained
           /\ streamRef' = NULL /\ live' = {}
       ]_vars

\* C15: every export of a present result ends in exactly one of two outcomes:
\* the native share succeeded and no file-save was triggered, or (sharing
\* unsupported, files refused by canShare, or a failure while sharing) the
\* file-save was triggered exactly once; before its end an export has triggered
\* no file-save; and no step of an export changes the recording state, the
\* buffered chunks, the encoders or the result handle.
C15_ExportSharesOrSavesOnce ==
  /\ [](\A i \in 1..Len(exports) :
          LET x == exports[i]
          IN  /\ x.url # NULL
              /\ x.stage = "done" =>
                    \/ x.shared /\ x.saves = 0 /\ sharing = "files"
                    \/ ~x.shared /\ x.saves = 1
              /\ x.stage # "done" => (~x.shared /\ x.saves = 0)
              /\ sharing # "files" => x.stage # "sharing")
  /\ [][ event' \in { "download", "fetched", "fetchFailed", "shared", "shareFailed" } =>
           UNCHANGED << isRecording, videoUrl, recordedChunks, mediaRecorderRef,
                        encoders, urls >>
       ]_vars

\* two exports of one result on a platform that shares files: the first was
\* shared, the second fell back to the file-save after its share was rejected
C15_Witness ==
  /\ event = "shareFailed"
  /\ Len(exports) = 2
  /\ exports[1].stage = "done" /\ exports[1].shared /\ exports[1].saves = 0
  /\ exports[2].stage = "done" /\ ~exports[2].shared /\ exports[2].saves = 1
  /\ exports[1].url = exports[2].url

\* C16: the result object made when a session's encoder stops is the
\* concatenation, in delivery order, of exactly the non-empty chunks that
\* encoder delivered, also when a new start() ran between the stop() and the
\* stopped encoder's last data and stop callback.
C16_ResultIsOwnChunks ==
  [][ \A e \in 1..Len(encoders) :
        (encoders[e].state = "stopping" /\ encoders'[e].state = "inactive") =>
          urls'[Len(urls')] = encoders'[e].out
    ]_vars

\* C17: while a session is Recording the chunk buffer is the sequence of the
\* non-empty chunks its encoder has delivered since start(): an empty chunk
\* leaves the buffer as it is, a non-empty one is appended.
C17_BufferIsSessionChunks ==
  isRecording => recordedChunks = encoders[mediaRecorderRef].out

\* C18: a tick that runs during an active drag neither changes the rendered
\* scroll offset nor advances the position, also when the auto-scroll flag is
\* true: the position is only re-read from the rendered offset.  The drag has
\* priority over auto-scroll, and auto-scroll over the resync: without a drag a
\* tick with the flag on advances by speed * 0.3 up to the end, and with the
\* flag off it re-reads the rendered offset.
C18_DragHasPriorityAtTick ==
  [][ event' = "tick" =>
        IF isDragging \/ ~isScrolling
        THEN scrollTop' = scrollTop /\ scrollPos' = scrollTop
        ELSE /\ scrollPos' = Min(scrollPos + speed * StepIncrement, maxScroll)
             /\ scrollTop' = scrollPos'
    ]_vars

\* a tick ran in the middle of a drag with the auto-scroll flag on, the script
\* short of its end: nothing moved
C18_Witness ==
  /\ event = "tick"
  /\ isDragging /\ isScrolling
  /\ scrollPos = scrollTop /\ scrollTop < maxScroll
  /\ scrollTop # startScrollTop

C20_CoupledOnlyAtStartAndStop ==
  [][ /\ (~isRecording /\ isRecording') => (event' = "record" /\ isScrolling')
      /\ (isRecording /\ ~isRecording') => (event' = "record" /\ ~isScrolling')
      /\ event' \in { "toggleScroll", "mouseDown", "mouseMove", "mouseUp",
                      "touchStart", "reset", "tick" } =>
            UNCHANGED << isRecording, mediaRecorderRef, encoders, recordedChunks,
                         videoUrl, urls >>
    ]_vars

\* in the middle of a session with a chunk buffered the user has switched
\* auto-scroll off: the session goes on
C20_Witness ==
  /\ event = "toggleScroll"
  /\ ~isScrolling
  /\ isRecording /\ encoders[mediaRecorderRef].state = "recording"
  /\ Len(recordedChunks) = 1

\* C21: at most one frame callback is pending at any time, and while mounted it
\* is the one remembered in requestRef, across ticks re-arming themselves and
\* across re-creation of animate when the auto-scroll flag or the speed
\* changes; after teardown no frame callback is pending and no tick runs.
C21_OneFramePending ==
  /\ [](/\ Cardinality(frames) <= 1
        /\ mounted => { c.id : c \in frames } = { requestRef }
        /\ ~mounted => frames = {})
  /\ [][ ~mounted => event' # "tick" ]_vars

\* torn down in the middle of an auto-scroll at 10x that ticks had advanced: no
\* frame callback is left
C21_Witness ==
  /\ event = "unmount"
  /\ ~mounted /\ frames = {}
  /\ isScrolling /\ speed = SliderMax
  /\ 0 < scrollPos /\ scrollPos < maxScroll

\* C22: an active encoder always captures from a live stream: start() never
\* creates an encoder on a stream whose tracks have been released, and while a
\* session is Recording a camera-facing toggle never releases the stream the
\* encoder is reading from.
C22_ActiveEncoderOnLiveStream ==
  \A e \in ActiveEncoders : encoders[e].stream \in live

====
